---- MODULE Spec2Model ----
(***************************************************************************)
(* Kodaikanal Astronomy Calendar (src/kodaikanal_calendar_3.py).           *)
(*                                                                         *)
(* The program is one Streamlit script.  The framework executes it from    *)
(* top to bottom ("a pass") whenever a run is requested: after a page      *)
(* load, after a widget change, and after the script itself calls          *)
(* st.experimental_rerun().  Between passes three things survive: the      *)
(* session store (st.session_state), the widget values, and the query      *)
(* string of the page URL.  A page load (typing a URL, following one of    *)
(* the calendar's <a href="?..."> links) opens a new session: empty        *)
(* session store, widgets at their defaults.                               *)
(*                                                                         *)
(* Texts (URL parameter values) are sequences of one-character strings, so *)
(* that int() and str() are computed and not assumed.  A query-parameter   *)
(* dictionary maps each key to the list of its values; the empty list      *)
(* stands for a key that is not in the dictionary.                         *)
(***************************************************************************)
EXTENDS Integers, Sequences, FiniteSets, TLC

VARIABLES
    today,          \* date.today(), fixed during a behaviour
    session_state,  \* st.session_state: empty, or [selected_day |-> date]
    year,           \* value of the "Select Year" number input
    month_index,    \* value of the "Select Month" select box, as 1..12
    query_params,   \* query string of the page URL
    run_requested,  \* the framework has a script run to execute
    outcome,        \* how the last pass ended
    page,           \* what the last complete pass displayed
    sky,            \* what the astronomy libraries answered in the last pass
    event,          \* history: the last user event
    link,           \* history: the day link followed, until the user acts again
    pre,            \* history: session, URL and selectors at the start of the last pass
    repeat          \* history: the last pass had the inputs of the pass before it

vars == <<today, session_state, year, month_index, query_params, run_requested,
          outcome, page, sky, event, link, pre, repeat>>

-----------------------------------------------------------------------------
(* Bounds of the model.                                                    *)

\* number of years the year selector is moved over, starting at FirstYear
NumYears == 2
\* illumination is counted in 1/Scale of a percent
Scale == 10
\* at most this many astronomy queries of one pass answer abnormally
MaxAbnormal == 1

(* Program constants.                                                      *)
RefreshLimit == 100000
MinYear == 1900
MaxYear == 2100
IstOffsetMinutes == 330

-----------------------------------------------------------------------------
(* Texts and integers: str() and int().                                    *)

DigitChars == <<"0", "1", "2", "3", "4", "5", "6", "7", "8", "9">>

IsDigit(c) == \E i \in 1..10 : DigitChars[i] = c

DigitValue(c) == (CHOOSE i \in 1..10 : DigitChars[i] = c) - 1

\* the decimal digits of a natural number
NatToText(n) ==
    LET digits[k \in Nat] ==
            IF k < 10 THEN <<DigitChars[k + 1]>>
            ELSE Append(digits[k \div 10], DigitChars[(k % 10) + 1])
    IN digits[n]

\* str(n) of a Python int
str(n) == IF n < 0 THEN <<"-">> \o NatToText(0 - n) ELSE NatToText(n)

\* the number a text of decimal digits denotes
DigitsToNat(s) ==
    LET prefix[k \in 0..Len(s)] ==
            IF k = 0 THEN 0 ELSE 10 * prefix[k - 1] + DigitValue(s[k])
    IN prefix[Len(s)]

AllDigits(s) == Len(s) > 0 /\ \A i \in 1..Len(s) : IsDigit(s[i])

ValueError == [ok |-> FALSE, val |-> 0]
Value(n) == [ok |-> TRUE, val |-> n]

\* int(s) of a text: an optional sign and decimal digits, or ValueError
\* (the texts of the model hold digits, signs and letters only)
int(s) ==
    IF Len(s) > 0 /\ s[1] \in {"-", "+"} /\ AllDigits(Tail(s))
    THEN Value((IF s[1] = "-" THEN -1 ELSE 1) * DigitsToNat(Tail(s)))
    ELSE IF AllDigits(s) THEN Value(DigitsToNat(s))
    ELSE ValueError

-----------------------------------------------------------------------------
(* Dates: datetime.date and calendar.monthcalendar.                        *)

IsLeap(y) == (y % 4 = 0) /\ ((y % 100 # 0) \/ (y % 400 = 0))

DaysInMonth(y, m) ==
    IF m = 2 THEN (IF IsLeap(y) THEN 29 ELSE 28)
    ELSE IF m \in {4, 6, 9, 11} THEN 30 ELSE 31

\* date(y, m, d) raises ValueError unless this holds (datetime.MINYEAR is 1,
\* datetime.MAXYEAR is 9999)
date_ok(y, m, d) ==
    /\ 1 <= y /\ y <= 9999
    /\ 1 <= m /\ m <= 12
    /\ 1 <= d /\ d <= DaysInMonth(y, m)

date(y, m, d) == [year |-> y, month |-> m, day |-> d]

DaysBeforeMonth(y, m) ==
    LET before[k \in 1..12] ==
            IF k = 1 THEN 0 ELSE before[k - 1] + DaysInMonth(y, k - 1)
    IN before[m]

DaysBeforeYear(y) ==
    (y - 1) * 365 + ((y - 1) \div 4) - ((y - 1) \div 100) + ((y - 1) \div 400)

\* 0 = Monday ... 6 = Sunday
weekday(y, m, d) == (DaysBeforeYear(y) + DaysBeforeMonth(y, m) + d + 6) % 7

\* monthcalendar(y, m) with the week starting on Monday: weeks of 7 day
\* numbers, 0 for the cells outside the month
monthcalendar(y, m) ==
    LET lead  == weekday(y, m, 1)
        n     == DaysInMonth(y, m)
        weeks == (lead + n + 6) \div 7
        cell(k) == IF k > lead /\ k <= lead + n THEN k - lead ELSE 0
    IN [w \in 1..weeks |-> [c \in 1..7 |-> cell(7 * (w - 1) + c)]]

\* next((d for w in calendar_data for d in w if d != 0), 1)
first_day(calendar_data) ==
    LET flat(k) == calendar_data[((k - 1) \div 7) + 1][((k - 1) % 7) + 1]
        nz == {k \in 1..(7 * Len(calendar_data)) : flat(k) # 0}
    IN IF nz = {} THEN 1
       ELSE flat(CHOOSE k \in nz : \A j \in nz : k <= j)

-----------------------------------------------------------------------------
(* Astronomy: what the libraries answer, and the script's own functions.   *)

Planets == {"Mercury", "Venus", "Mars", "Jupiter", "Saturn"}
Bodies == {"Moon"} \cup Planets
Events == {"rise", "set", "transit"}
Slots == Bodies \X Events

\* an answer of observer.next_rising / next_setting / next_transit: a UTC
\* time (minute of the day), ephem.AlwaysUpError, ephem.NeverUpError, or
\* another exception
Time(t) == [kind |-> "time", minute |-> t]
Fault(k) == [kind |-> k, minute |-> 0]
FaultKinds == {"AlwaysUpError", "NeverUpError", "error"}

NotVisible(ans) == ans.kind \in {"AlwaysUpError", "NeverUpError"}
Raises(ans) == ans.kind = "error"

Pad2(n) == <<DigitChars[(n \div 10) + 1], DigitChars[(n % 10) + 1]>>

\* strftime("%I:%M %p") of a minute of the day
strftime_12h(t) ==
    LET h == t \div 60
        h12 == IF h % 12 = 0 THEN 12 ELSE h % 12
    IN Pad2(h12) \o <<":">> \o Pad2(t % 60) \o <<" ">>
       \o (IF h < 12 THEN <<"A", "M">> ELSE <<"P", "M">>)

NA == <<"N", "/", "A">>

\* a value handed to to_ist_12h: <<>> for "N/A" or None, <<t>> for a datetime
to_ist_12h(dt_utc) ==
    IF dt_utc = <<>> THEN NA
    ELSE strftime_12h((dt_utc[1] + IstOffsetMinutes) % 1440)

\* get_rise_set with "except ephem.AlwaysUpError" only: NeverUpError leaves it
get_rise_set_only_always_up(s, body) ==
    LET rise == s.events[<<body, "rise">>]
        set_ == s.events[<<body, "set">>]
    IN [raised |-> \/ rise.kind \in {"error", "NeverUpError"}
                   \/ set_.kind \in {"error", "NeverUpError"},
        rise   |-> IF NotVisible(rise) THEN <<>> ELSE <<rise.minute>>,
        set    |-> IF NotVisible(set_) THEN <<>> ELSE <<set_.minute>>]

\* get_rise_set(observer, body): the two answers; raised when an exception
\* other than AlwaysUpError / NeverUpError leaves the function
get_rise_set(s, body) ==
    LET rise == s.events[<<body, "rise">>]
        set_ == s.events[<<body, "set">>]
    IN [raised |-> Raises(rise) \/ Raises(set_),
        rise   |-> IF NotVisible(rise) THEN <<>> ELSE <<rise.minute>>,
        set    |-> IF NotVisible(set_) THEN <<>> ELSE <<set_.minute>>]

get_zenith(s, body) ==
    LET transit == s.events[<<body, "transit">>]
    IN [raised  |-> Raises(transit),
        transit |-> IF NotVisible(transit) THEN <<>> ELSE <<transit.minute>>]

\* describe_moon_phase with "illum <= 50" in the second branch
describe_moon_phase_le_50(illum) ==
    IF illum < 1 * Scale THEN "New Moon"
    ELSE IF illum <= 50 * Scale THEN "Waxing Crescent"
    ELSE IF illum = 50 * Scale THEN "First Quarter"
    ELSE IF illum < 99 * Scale THEN "Waxing Gibbous"
    ELSE IF illum >= 99 * Scale THEN "Full Moon"
    ELSE IF illum > 50 * Scale THEN "Waning Gibbous"
    ELSE IF illum = 50 * Scale THEN "Last Quarter"
    ELSE "Waning Crescent"

\* describe_moon_phase(illum), illum in 1/Scale percent
describe_moon_phase(illum) ==
    IF illum < 1 * Scale THEN "New Moon"
    ELSE IF illum < 50 * Scale THEN "Waxing Crescent"
    ELSE IF illum = 50 * Scale THEN "First Quarter"
    ELSE IF illum < 99 * Scale THEN "Waxing Gibbous"
    ELSE IF illum >= 99 * Scale THEN "Full Moon"
    ELSE IF illum > 50 * Scale THEN "Waning Gibbous"
    ELSE IF illum = 50 * Scale THEN "Last Quarter"
    ELSE "Waning Crescent"

\* f"{moon_phase:.1f}": the illumination rounded to tenths of a percent
format_1f(illum) ==
    LET twice == (20 * illum) \div Scale
        exact == (20 * illum) % Scale = 0
        low   == twice \div 2
    IN IF twice % 2 = 0 THEN low
       ELSE IF exact /\ low % 2 = 0 THEN low
       ELSE low + 1

-----------------------------------------------------------------------------
(* The state between passes.                                               *)

Keys == {"refresh_count", "year", "month", "selected_day"}

\* a query-parameter dictionary with no key
NoParams == [k \in Keys |-> <<>>]

\* query_params.get(key, [default])[0]
get_first(params, key, default) ==
    IF params[key] = <<>> THEN default ELSE params[key][1]

EmptySession == [k \in {} |-> 0]

HasSelection(session) == "selected_day" \in DOMAIN session

NoDate == date(0, 0, 0)

BlankPage == [calendar |-> <<>>, astro_date |-> <<>>, sun |-> <<>>,
              moon |-> <<>>, planets |-> <<>>, error |-> FALSE]

NoPre == [any |-> FALSE, had_selection |-> FALSE, selected_day |-> NoDate,
          query_params |-> NoParams, year |-> 0, month_index |-> 0]

\* the answers of a sky in which every query succeeds at UTC minute t
AllTimes(t) == [slot \in Slots |-> Time(t)]

\* sun: "ok" or "error" (astral's sun() raises); sun_times in IST minutes
SunTimes == [sunrise |-> 375, noon |-> 738, sunset |-> 1101]

Sky(sun, illum, events) ==
    [sun |-> sun, sun_times |-> SunTimes, phase |-> illum, events |-> events]

NominalSky == Sky("ok", 42 * Scale, AllTimes(30))

Years == 2024..(2024 + NumYears - 1)
\* the months the month select box is moved over
Months == {1, 2, 3, 4}

Todays == {date(2024, 1, 31), date(2025, 3, 15)}

Init ==
    /\ today \in Todays
    /\ session_state = EmptySession
    /\ year = today.year
    /\ month_index = today.month
    /\ query_params = NoParams
    /\ run_requested = FALSE
    /\ outcome = "none"
    /\ page = BlankPage
    /\ sky = NominalSky
    /\ event = "none"
    /\ link = NoDate
    /\ pre = NoPre
    /\ repeat = FALSE

-----------------------------------------------------------------------------
(* The user.  The user acts on a page whose script has finished.           *)

\* the browser opens the page at a URL: a new session
NewSession(url) ==
    /\ query_params' = url
    /\ session_state' = EmptySession
    /\ year' = today.year
    /\ month_index' = today.month
    /\ run_requested' = TRUE
    /\ page' = BlankPage
    /\ pre' = NoPre
    /\ repeat' = FALSE
    /\ sky' = NominalSky
    /\ UNCHANGED <<today, outcome>>

PageLoad(url) ==
    /\ ~run_requested
    /\ NewSession(url)
    /\ event' = "load"
    /\ link' = NoDate

\* the user follows the link of day d of the displayed calendar:
\* <a href="?selected_day={day}&year={year}&month={month_index}">
FollowLink(d) ==
    /\ ~run_requested
    /\ outcome = "done"
    /\ \E w \in 1..Len(page.calendar), c \in 1..7 :
          /\ page.calendar[w][c].day = d
          /\ LET href == page.calendar[w][c].href
             IN /\ NewSession([NoParams EXCEPT
                                  !["selected_day"] = <<href.selected_day>>,
                                  !["year"] = <<href.year>>,
                                  !["month"] = <<href.month>>])
                /\ link' = date(int(href.year).val, int(href.month).val,
                                int(href.selected_day).val)
    /\ event' = "link"

\* the user changes the year input or the month select box
ChangeSelectors(y, m) ==
    /\ ~run_requested
    /\ outcome = "done"
    /\ MinYear <= y /\ y <= MaxYear
    /\ <<y, m>> # <<year, month_index>>
    /\ year' = y
    /\ month_index' = m
    /\ run_requested' = TRUE
    /\ event' = "selectors"
    /\ link' = NoDate
    /\ UNCHANGED <<today, session_state, query_params, outcome, page, sky, pre, repeat>>

\* the user asks for a rerun of the script (the framework's Rerun command)
UserRerun ==
    /\ ~run_requested
    /\ outcome \in {"done", "exception"}
    /\ run_requested' = TRUE
    /\ UNCHANGED <<today, session_state, year, month_index, query_params, outcome,
                   page, sky, event, link, pre, repeat>>

-----------------------------------------------------------------------------
(* The script: one pass from line 1 to the end or to a rerun.              *)

\* set_query_params(refresh_count=refresh_count): the increment forgotten
refresh_params_no_increment(refresh_count) ==
    [NoParams EXCEPT !["refresh_count"] = <<str(refresh_count)>>]

\* st.experimental_set_query_params(refresh_count=refresh_count + 1): the
\* query string becomes this one parameter
refresh_params(refresh_count) ==
    [NoParams EXCEPT !["refresh_count"] = <<str(refresh_count + 1)>>]

\* lines 67-75: the stored selection, or today / the first day of the month
initial_selection(session, y, m) ==
    IF HasSelection(session) THEN session.selected_day
    ELSE IF y = today.year /\ m = today.month THEN today
    ELSE date(y, m, first_day(monthcalendar(y, m)))

\* query_selection comparing with the displayed year and month instead of
\* those of the stored selection
query_selection_vs_displayed(params, selected_day, y, m) ==
    LET q_year  == int(get_first(params, "year", str(y)))
        q_month == int(get_first(params, "month", str(m)))
        q_day   == int(get_first(params, "selected_day", str(selected_day.day)))
        parsed  == q_year.ok /\ q_month.ok /\ q_day.ok
        differs == <<q_year.val, q_month.val, q_day.val>> # <<y, m, selected_day.day>>
    IN IF parsed /\ differs /\ date_ok(q_year.val, q_month.val, q_day.val)
       THEN [store |-> TRUE, date |-> date(q_year.val, q_month.val, q_day.val)]
       ELSE [store |-> FALSE, date |-> selected_day]

\* lines 78-91: the date of the query parameters, when they parse, differ
\* from the stored selection and name a date; store says whether line 87
\* assigns st.session_state.selected_day (and line 89 reruns)
query_selection(params, selected_day, y, m) ==
    LET q_year  == int(get_first(params, "year", str(y)))
        q_month == int(get_first(params, "month", str(m)))
        q_day   == int(get_first(params, "selected_day", str(selected_day.day)))
        parsed  == q_year.ok /\ q_month.ok /\ q_day.ok
        differs == <<q_year.val, q_month.val, q_day.val>>
                     # <<selected_day.year, selected_day.month, selected_day.day>>
    IN IF parsed /\ differs /\ date_ok(q_year.val, q_month.val, q_day.val)
       THEN [store |-> TRUE, date |-> date(q_year.val, q_month.val, q_day.val)]
       ELSE [store |-> FALSE, date |-> selected_day]

\* render_calendar_html(): the cells of the table
render_calendar_html(y, m, selected_day) ==
    LET calendar_data == monthcalendar(y, m)
        cell(day) ==
            IF day = 0
            THEN [day |-> 0, classes |-> {},
                  href |-> [selected_day |-> <<>>, year |-> <<>>, month |-> <<>>]]
            ELSE [day |-> day,
                  classes |-> (IF date(y, m, day) = selected_day THEN {"selected"} ELSE {})
                              \cup (IF date(y, m, day) = today THEN {"today"} ELSE {}),
                  href |-> [selected_day |-> str(day), year |-> str(y),
                            month |-> str(m)]]
    IN [w \in 1..Len(calendar_data) |-> [c \in 1..7 |-> cell(calendar_data[w][c])]]

\* lines 197-258: the astronomy block for selected_day under the answers s
astronomy(selected_day, s) ==
    LET moon_rs == get_rise_set(s, "Moon")
        moon_z  == get_zenith(s, "Moon")
        raised  == \/ s.sun = "error"
                   \/ moon_rs.raised
                   \/ moon_z.raised
                   \/ \E p \in Planets : get_rise_set(s, p).raised \/ get_zenith(s, p).raised
    IN IF raised
       THEN [astro_date |-> <<>>, sun |-> <<>>, moon |-> <<>>, planets |-> <<>>,
             error |-> TRUE]
       ELSE [astro_date |-> <<selected_day>>,
             sun |-> <<[sunrise |-> strftime_12h(s.sun_times.sunrise),
                        sunset  |-> strftime_12h(s.sun_times.sunset),
                        noon    |-> strftime_12h(s.sun_times.noon)]>>,
             moon |-> <<[rise |-> to_ist_12h(moon_rs.rise),
                         set  |-> to_ist_12h(moon_rs.set),
                         transit |-> to_ist_12h(moon_z.transit),
                         phase_desc |-> describe_moon_phase(s.phase),
                         phase |-> format_1f(s.phase)]>>,
             planets |-> <<[p \in Planets |->
                              [rise |-> to_ist_12h(get_rise_set(s, p).rise),
                               set  |-> to_ist_12h(get_rise_set(s, p).set),
                               transit |-> to_ist_12h(get_zenith(s, p).transit)]]>>,
             error |-> FALSE]

\* line 44 raises ValueError: the pass ends in an uncaught exception
UncaughtException ==
    /\ outcome' = "exception"
    /\ run_requested' = FALSE
    /\ page' = BlankPage
    /\ UNCHANGED <<session_state, year, month_index, query_params, sky>>

\* lines 46-50
Refresh(refresh_count) ==
    /\ query_params' = refresh_params(refresh_count)
    /\ outcome' = "refresh_rerun"
    /\ run_requested' = TRUE
    /\ UNCHANGED <<session_state, year, month_index, page, sky>>

\* lines 54-258
Render(s) ==
    LET selected_day == initial_selection(session_state, year, month_index)
        q == query_selection(query_params, selected_day, year, month_index)
    IN IF q.store
       THEN /\ session_state' = [selected_day |-> q.date]
            /\ outcome' = "select_rerun"
            /\ run_requested' = TRUE
            /\ UNCHANGED <<year, month_index, query_params, page, sky>>
       ELSE /\ session_state' = [selected_day |-> selected_day]
            /\ outcome' = "done"
            /\ run_requested' = FALSE
            /\ sky' = s
            /\ page' = [calendar |-> render_calendar_html(year, month_index, selected_day)]
                       @@ astronomy(selected_day, s)
            /\ UNCHANGED <<year, month_index, query_params>>

RunScript(s) ==
    /\ run_requested
    /\ LET count == query_params["refresh_count"]
           refresh_count == IF count = <<>> THEN Value(0) ELSE int(count[1])
       IN IF ~refresh_count.ok THEN UncaughtException
          ELSE IF refresh_count.val < RefreshLimit THEN Refresh(refresh_count.val)
          ELSE Render(s)
    /\ pre' = [any |-> TRUE, had_selection |-> HasSelection(session_state),
               selected_day |-> IF HasSelection(session_state)
                                THEN session_state.selected_day ELSE NoDate,
               query_params |-> query_params, year |-> year,
               month_index |-> month_index]
    /\ repeat' = /\ pre.any
                 /\ HasSelection(session_state)
                 /\ pre.query_params = query_params
                 /\ pre.year = year
                 /\ pre.month_index = month_index
    /\ UNCHANGED <<today, event, link>>

-----------------------------------------------------------------------------
(* Specifications.                                                         *)

\* query strings a page is loaded with
RefreshTexts == {<<"a", "b", "c">>, str(RefreshLimit - 1), str(RefreshLimit)}
YearTexts == {<<"x">>, str(2025)}
MonthTexts == {<<"4">>}
DayTexts == {<<"5">>, <<"3", "1">>}

Lists(texts) == {<<>>} \cup {<<t>> : t \in texts}

LoadURLs ==
    {[refresh_count |-> r, year |-> y, month |-> m, selected_day |-> d] :
        r \in Lists(RefreshTexts), y \in Lists(YearTexts),
        m \in Lists(MonthTexts), d \in Lists(DayTexts)}

Next ==
    \/ \E url \in LoadURLs : PageLoad(url)
    \/ \E y \in Years, m \in Months : ChangeSelectors(y, m)
    \/ UserRerun
    \/ RunScript(NominalSky)

Spec == Init /\ [][Next]_vars

\* query strings for the runs whose end is checked: the plain page, a URL
\* one refresh below the limit, and settled URLs that name a date
LiveURLs ==
    {NoParams,
     [NoParams EXCEPT !["refresh_count"] = <<str(RefreshLimit - 1)>>,
                      !["selected_day"] = <<str(5)>>],
     [NoParams EXCEPT !["refresh_count"] = <<str(RefreshLimit)>>,
                      !["year"] = <<str(2025)>>],
     [NoParams EXCEPT !["refresh_count"] = <<str(RefreshLimit)>>,
                      !["month"] = <<str(4)>>, !["selected_day"] = <<str(31)>>]}

LiveNext ==
    \/ \E url \in LiveURLs : PageLoad(url)
    \/ \E y \in Years, m \in Months : ChangeSelectors(y, m)
    \/ UserRerun
    \/ RunScript(NominalSky)

\* the framework executes a requested run
LiveSpec == Init /\ [][LiveNext]_vars /\ WF_vars(RunScript(NominalSky))

\* a settled page: the query string of a session whose refreshes are over
SettledURL == [NoParams EXCEPT !["refresh_count"] = <<str(RefreshLimit)>>]

\* the days whose links the user follows
LinkDays == {1, 15}

LinkNext ==
    \/ PageLoad(SettledURL)
    \/ \E d \in LinkDays : FollowLink(d)
    \/ RunScript(NominalSky)

LinkSpec == Init /\ [][LinkNext]_vars

\* answers with at most k abnormal ones among the 18 body events
RECURSIVE FaultyEvents(_)
FaultyEvents(k) ==
    IF k = 0 THEN {AllTimes(30)}
    ELSE LET fewer == FaultyEvents(k - 1)
         IN fewer \cup {[ev EXCEPT ![slot] = Fault(kind)] :
                           ev \in fewer, slot \in Slots, kind \in FaultKinds}

\* illuminations around the thresholds of describe_moon_phase
BoundaryIllums == {0, 50 * Scale, 100 * Scale}

AstroSkies ==
    {Sky("ok", i, ev) : i \in BoundaryIllums, ev \in FaultyEvents(MaxAbnormal)}
    \cup {Sky("error", i, ev) : i \in BoundaryIllums,
                                ev \in FaultyEvents(MaxAbnormal - 1)}
    \cup {Sky("ok", i, AllTimes(t)) : i \in 0..(100 * Scale), t \in {0, 390, 1109}}

AstroNext ==
    \/ PageLoad(SettledURL)
    \/ \E s \in AstroSkies : RunScript(s)

AstroSpec == Init /\ [][AstroNext]_vars

-----------------------------------------------------------------------------
(* Properties.                                                             *)

\* a pass has reached the calendar and the astronomy display, and nothing
\* has happened since
Settled == outcome = "done" /\ ~run_requested

\* today in the real current month, day 1 in any other month
DefaultSelection(y, m) ==
    IF y = today.year /\ m = today.month THEN today ELSE date(y, m, 1)

NoDateParams(params) ==
    params["year"] = <<>> /\ params["month"] = <<>> /\ params["selected_day"] = <<>>

\* the refresh_count a pass reads from the query string
RefreshCount(params) ==
    IF params["refresh_count"] = <<>> THEN Value(0)
    ELSE int(params["refresh_count"][1])

\* the value displayed for an event of a body
Shown(body, ev) ==
    IF body = "Moon" THEN page.moon[1][ev] ELSE page.planets[1][body][ev]

\* C1: whenever a pass reaches the calendar and astronomy display, the
\* selected date lies in the displayed (year, month) and its day is in
\* 1..days-in-month of that month.
C1_SelectedInDisplayedMonth ==
    Settled =>
        /\ session_state.selected_day.year = year
        /\ session_state.selected_day.month = month_index
        /\ session_state.selected_day.day \in 1..DaysInMonth(year, month_index)

\* C2: after the user follows the link of day d of the displayed month
\* (y, m), the next pass that reaches the astronomy display uses the
\* selected date (y, m, d).
C2_LinkSelects ==
    (Settled /\ link # NoDate) =>
        /\ session_state.selected_day = link
        /\ page.astro_date = <<link>>

\* C3: after the user changed only the year or month selector, the selected
\* date of the next render is today if the displayed month is the real
\* current month and day 1 of the displayed month otherwise.
C3_SelectorResets ==
    (Settled /\ event = "selectors" /\ NoDateParams(query_params)) =>
        session_state.selected_day = DefaultSelection(year, month_index)

\* C4: a pass that starts with a stored selection and has the displayed
\* year and month and the URL parameters of the pass before it leaves the
\* stored selection unchanged and requests no rerun.
C4_Retention ==
    repeat =>
        /\ outcome \notin {"refresh_rerun", "select_rerun"}
        /\ HasSelection(session_state)
        /\ session_state.selected_day = pre.selected_day

C4_Witness ==
    /\ repeat
    /\ outcome = "done"
    /\ ~run_requested
    /\ pre.query_params["selected_day"] # <<>>
    /\ session_state.selected_day # today

\* C5: for every value of the URL parameters no pass ends in an uncaught
\* error.
C5_NoUncaughtError == outcome # "exception"

\* C6: when a planet query raises an error other than not-visible while the
\* Sun and Moon values were computed, the Sun and Moon sections are still
\* displayed and an error is shown for the planets.
C6_PartialDisplay ==
    (/\ Settled
     /\ sky.sun = "ok"
     /\ \A ev \in Events : ~Raises(sky.events[<<"Moon", ev>>])
     /\ \E p \in Planets, ev \in Events : Raises(sky.events[<<p, ev>>]))
    => (page.sun # <<>> /\ page.moon # <<>> /\ page.error)

\* C7: in a pass in which no query raises another kind of error, every
\* event the ephemeris reports as always up or never up is displayed as
\* "N/A", every other event of every body is displayed with its time, the
\* Sun section is displayed, and no error is shown.
C7_NotVisibleIsNA ==
    (/\ Settled
     /\ sky.sun = "ok"
     /\ \A slot \in Slots : ~Raises(sky.events[slot]))
    => /\ ~page.error
       /\ page.sun # <<>>
       /\ page.moon # <<>>
       /\ page.planets # <<>>
       /\ \A body \in Bodies, ev \in Events :
             IF NotVisible(sky.events[<<body, ev>>])
             THEN Shown(body, ev) = NA
             ELSE /\ Shown(body, ev) # NA
                  /\ Len(Shown(body, ev)) = 8

C7_Witness ==
    /\ Settled
    /\ ~page.error
    /\ sky.events[<<"Jupiter", "set">>].kind = "NeverUpError"
    /\ page.planets[1]["Jupiter"].set = NA
    /\ page.planets[1]["Jupiter"].rise # NA

\* C8: the first pass of a session, with no stored selection and no URL day
\* parameter, selects today when the displayed month is the real current
\* month and day 1 of the displayed month otherwise.
C8_FirstRenderDefault ==
    (/\ pre.any
     /\ ~pre.had_selection
     /\ outcome \in {"done", "select_rerun"}
     /\ pre.query_params["selected_day"] = <<>>)
    => /\ HasSelection(session_state)
       /\ session_state.selected_day = DefaultSelection(pre.year, pre.month_index)

\* C9: a refresh rerun happens only below the limit and adds exactly 1 to
\* refresh_count, a rerun for a query-parameter update of the selection is
\* followed by a pass that reaches the display, and every requested run with
\* an integer refresh_count leads to a pass that calls no rerun and reaches
\* the astronomy display.
C9_RerunsEnd ==
    /\ [][(run_requested /\ outcome' = "refresh_rerun") =>
             /\ RefreshCount(query_params).val < RefreshLimit
             /\ RefreshCount(query_params').ok
             /\ RefreshCount(query_params').val = RefreshCount(query_params).val + 1]_vars
    /\ [][(run_requested /\ outcome = "select_rerun") => outcome' = "done"]_vars
    /\ (run_requested /\ RefreshCount(query_params).ok) ~> Settled

C9_Witness ==
    /\ Settled
    /\ event = "load"
    /\ pre.query_params = SettledURL
    /\ ~pre.had_selection
    /\ NoDateParams(query_params)

\* C10: the phase name displayed for an illumination is "New Moon" below 1,
\* "Waxing Crescent" from 1 to below 50, "First Quarter" at 50, "Waxing
\* Gibbous" above 50 and below 99, "Full Moon" from 99 up, and never a
\* waning name.
C10_PhaseNames ==
    (Settled /\ page.moon # <<>>) =>
        LET illum == sky.phase
            name  == page.moon[1].phase_desc
        IN /\ illum \in 0..(100 * Scale)
           /\ (illum < 1 * Scale) => name = "New Moon"
           /\ (1 * Scale <= illum /\ illum < 50 * Scale) => name = "Waxing Crescent"
           /\ (illum = 50 * Scale) => name = "First Quarter"
           /\ (50 * Scale < illum /\ illum < 99 * Scale) => name = "Waxing Gibbous"
           /\ (99 * Scale <= illum) => name = "Full Moon"
           /\ name \notin {"Waning Gibbous", "Last Quarter", "Waning Crescent"}

C10_Witness ==
    /\ Settled
    /\ page.moon # <<>>
    /\ sky.phase = 50 * Scale
    /\ page.moon[1].phase_desc = "First Quarter"

====
